---- MODULE Spec2Model ----
(***************************************************************************)
(* smcpeak-addon.py: helper commands for the host's video sequence editor. *)
(* The host (scene, render settings, strips, selection, fonts) is the      *)
(* state; each command of the add-on is a short sequence of steps, one per *)
(* statement or host command, executed by a single thread.                 *)
(***************************************************************************)
EXTENDS Integers, Sequences, FiniteSets, TLC

\* ------------------------------------------------------------------ bounds
MaxPathLen == 3      \* longest initial render output path, in characters
MaxFrame == 2        \* largest initial frame number / strip start
BigFrame == 12       \* a frame number of more than one digit
MaxDur == 2          \* longest initial strip, in frames (the shortest is 1)
MaxStrips == 3       \* most strips on the initial timeline

\* ------------------------------------------------------- program constants
InsetFrames == 120   \* frame_end=frame_num+120, add_text_strip(context, 120)
OffsetBase == 150    \* img.transform.offset_y = -(150 + 50*n)
OffsetStep == 50
InsetSeconds == 4    \* "persistently show it for 4 seconds"
CropMinX == 1166
CropMaxX == 57
CropMinY == 665
CropMaxY == 28
InsetFontSize == 20
AttemptFontSize == 40

VARIABLES
    frame_current,   \* context.scene.frame_current
    frame_end,       \* context.scene.frame_end
    fps,             \* context.scene.render.fps
    filepath,        \* context.scene.render.filepath (sequence of characters)
    file_format,     \* context.scene.render.image_settings.file_format
    sequences,       \* the sequence editor's strips, in list order
    active,          \* id of context.active_sequence_strip, 0 for None
    fonts,           \* TRUE iff 'Calibri Bold' is in bpy.data.fonts
    console,         \* lines printed by the current command
    calls,           \* host commands issued by the current command, in order
    pc,              \* position of the thread
    op,              \* the command being (or last) executed
    loc,             \* the local variables of the running functions
    result,          \* what the last command reported
    pre              \* the host state when the current command was invoked

vars == <<frame_current, frame_end, fps, filepath, file_format, sequences,
          active, fonts, console, calls, pc, op, loc, result, pre>>

\* ------------------------------------------------------------ characters
\* The decimal digits of a natural number, as f"{frame_num}" writes them.
RECURSIVE Digits(_)
Digits(n) ==
    LET d == <<"0", "1", "2", "3", "4", "5", "6", "7", "8", "9">>
    IN  IF n < 10 THEN <<d[n + 1]>> ELSE Digits(n \div 10) \o <<d[(n % 10) + 1]>>

\* f"frame-{frame_num}.png"
FrameFileName(n) ==
    <<"f", "r", "a", "m", "e", "-">>
        \o (IF n < 0 THEN <<"-">> \o Digits(-n) ELSE Digits(n))
        \o <<".", "p", "n", "g">>

\* 1-based position of the last "/" of p, 0 when there is none (p.rfind('/') + 1)
LastSlash(p) ==
    LET S == {i \in 1..Len(p) : p[i] = "/"}
    IN  IF S = {} THEN 0 ELSE CHOOSE i \in S : \A j \in S : j <= i

AllSlashes(p) == \A i \in 1..Len(p) : p[i] = "/"

RECURSIVE RStripSlashes(_)
RStripSlashes(p) ==
    IF Len(p) > 0 /\ p[Len(p)] = "/"
    THEN RStripSlashes(SubSeq(p, 1, Len(p) - 1))
    ELSE p

\* os.path.dirname: everything up to the last slash, without trailing
\* slashes unless it consists of slashes only.
dirname(p) ==
    LET head == SubSeq(p, 1, LastSlash(p))
    IN  IF Len(head) > 0 /\ ~AllSlashes(head) THEN RStripSlashes(head) ELSE head

\* os.path.basename: everything after the last slash.
basename(p) == SubSeq(p, LastSlash(p) + 1, Len(p))

\* os.path.join(a, b) for a relative b: a separator is inserted unless a is
\* empty or already ends with one.
JoinAlwaysSlash(a, b) == a \o <<"/">> \o b
join(a, b) ==
    IF Len(b) > 0 /\ b[1] = "/" THEN b
    ELSE IF Len(a) = 0 \/ a[Len(a)] = "/" THEN a \o b
    ELSE a \o <<"/">> \o b

\* ------------------------------------------------------------ host state
Max(a, b) == IF a >= b THEN a ELSE b

\* A strip of the sequence editor.  The host keeps every strip at least one
\* frame long: an end at or before the start is moved to one past the start.
Strip(i, t, fs, fe, txt, file) ==
    [id |-> i, type |-> t, frame_final_start |-> fs,
     frame_final_duration |-> Max(fe - fs, 1), select |-> TRUE, text |-> txt,
     file |-> file, crop |-> <<0, 0, 0, 0>>, offset_y |-> 0,
     use_shadow |-> FALSE, font_size |-> 0, align_x |-> "CENTER",
     location |-> <<50, 50>>, has_font |-> FALSE]

\* The add commands of the sequencer replace the selection by the new strip.
DeselectAll(seqs) == [k \in 1..Len(seqs) |-> [seqs[k] EXCEPT !.select = FALSE]]

\* seqs with the strip of id i replaced by new
Update(seqs, i, new) ==
    [k \in 1..Len(seqs) |-> IF seqs[k].id = i THEN new ELSE seqs[k]]

Ids(seqs) == {seqs[i].id : i \in 1..Len(seqs)}
NewId(seqs) == CHOOSE i \in 1..(Len(seqs) + 1) : i \notin Ids(seqs)
ById(seqs, i) == seqs[CHOOSE k \in 1..Len(seqs) : seqs[k].id = i]

\* A host command as the add-on issues it, with its arguments.
Call(cmd, x, y, path, fmt) ==
    [cmd |-> cmd, x |-> x, y |-> y, path |-> path, fmt |-> fmt]

LocInit ==
    [n |-> 0, out_dir |-> <<>>, frame_num |-> 0, new_filepath |-> <<>>,
     orig_filepath |-> <<>>, orig_file_format |-> "", exn |-> "none",
     restore_failed |-> FALSE, ret |-> <<>>, img |-> 0, label |-> 0,
     start |-> 0, duration |-> 0]

NoResult == [status |-> "none", exn |-> "none"]
Finished == [status |-> "FINISHED", exn |-> "none"]
Raised(e) == [status |-> "RAISED", exn |-> e]

Snapshot ==
    [frame_current |-> frame_current, frame_end |-> frame_end,
     filepath |-> filepath, file_format |-> file_format,
     sequences |-> sequences, active |-> active, fonts |-> fonts]

\* The host dispatches a registered command: execute(self, context) starts.
\* Each behaviour runs one command from an arbitrary host state.
Invoke(name, first, n) ==
    /\ pc = "idle"
    /\ result.status = "none"
    /\ op' = name
    /\ pc' = first
    /\ loc' = [LocInit EXCEPT !.n = n]
    /\ pre' = Snapshot
    /\ UNCHANGED <<frame_current, frame_end, fps, filepath, file_format,
                   sequences, active, fonts, console, calls, result>>

\* An exception leaves the running functions and execute(): the host reports
\* the error and the command does not return {'FINISHED'}.
Propagate(e) ==
    /\ result' = Raised(e)
    /\ pc' = "idle"

scene_vars == <<frame_current, frame_end, fps>>
render_vars == <<filepath, file_format>>
strip_vars == <<sequences, active>>

\* ------------------------------------------------------------ render_frame
RenderFrameOperator_execute == Invoke("render_frame", "rf_begin", 0)

\* lines 47-55: the new file's name and the saved settings
RfLocals(l) ==
    [l EXCEPT !.out_dir = dirname(filepath),
              !.frame_num = frame_current,
              !.new_filepath = join(dirname(filepath), FrameFileName(frame_current)),
              !.orig_filepath = filepath,
              !.orig_file_format = file_format]

RfBegin ==
    /\ pc = "rf_begin"
    /\ loc' = RfLocals(loc)
    /\ pc' = "rf_set_filepath"
    /\ UNCHANGED <<scene_vars, render_vars, strip_vars, fonts, console, calls,
                   op, result, pre>>

\* line 59; a write the host refuses raises and leaves the field as it was
RfSetFilepath ==
    /\ pc = "rf_set_filepath"
    /\ \E ok \in BOOLEAN :
         IF ok
         THEN /\ filepath' = loc.new_filepath
              /\ pc' = "rf_set_format"
              /\ loc' = loc
         ELSE /\ filepath' = filepath
              /\ pc' = "rf_restore_filepath"
              /\ loc' = [loc EXCEPT !.exn = "set_filepath"]
    /\ UNCHANGED <<scene_vars, file_format, strip_vars, fonts, console, calls,
                   op, result, pre>>

\* line 60
RfSetFormat ==
    /\ pc = "rf_set_format"
    /\ \E ok \in BOOLEAN :
         IF ok
         THEN /\ file_format' = "PNG"
              /\ pc' = "rf_render"
              /\ loc' = loc
         ELSE /\ file_format' = file_format
              /\ pc' = "rf_restore_filepath"
              /\ loc' = [loc EXCEPT !.exn = "set_format"]
    /\ UNCHANGED <<scene_vars, filepath, strip_vars, fonts, console, calls,
                   op, result, pre>>

\* line 63: bpy.ops.render.render(write_still=True) writes the still to the
\* scene's output path in the scene's file format, or raises.
RfRender ==
    /\ pc = "rf_render"
    /\ calls' = Append(calls, Call("render.render", 0, 0, filepath, file_format))
    /\ \E ok \in BOOLEAN :
         loc' = IF ok THEN loc ELSE [loc EXCEPT !.exn = "render"]
    /\ pc' = "rf_restore_filepath"
    /\ UNCHANGED <<scene_vars, render_vars, strip_vars, fonts, console, op,
                   result, pre>>

\* lines 70-73: an exception of the restoration is printed and swallowed
RestorePropagates(l) == [l EXCEPT !.restore_failed = TRUE, !.exn = "restore"]
SwallowRestoreExn(l) == [l EXCEPT !.restore_failed = TRUE]

RestoreLogLine == [kind |-> "restore_exn", count |-> 0, text |-> ""]

\* the values the finally block writes back (lines 68-69)
RestoredFilepathNew(l) == l.new_filepath
RestoredFilepath(l) == l.orig_filepath
RestoredFormatPng(l) == "PNG"
RestoredFormat(l) == l.orig_file_format

\* line 68, inside finally: runs on every way out of the try block
RfRestoreFilepath ==
    /\ pc = "rf_restore_filepath"
    /\ \E ok \in BOOLEAN :
         IF ok
         THEN /\ filepath' = RestoredFilepath(loc)
              /\ pc' = "rf_restore_format"
              /\ loc' = loc
              /\ console' = console
         ELSE /\ filepath' = filepath
              /\ pc' = "rf_exit"
              /\ loc' = SwallowRestoreExn(loc)
              /\ console' = Append(console, RestoreLogLine)
    /\ UNCHANGED <<scene_vars, file_format, strip_vars, fonts, calls, op,
                   result, pre>>

\* line 69
RfRestoreFormat ==
    /\ pc = "rf_restore_format"
    /\ \E ok \in BOOLEAN :
         IF ok
         THEN /\ file_format' = RestoredFormat(loc)
              /\ loc' = loc
              /\ console' = console
         ELSE /\ file_format' = file_format
              /\ loc' = SwallowRestoreExn(loc)
              /\ console' = Append(console, RestoreLogLine)
    /\ pc' = "rf_exit"
    /\ UNCHANGED <<scene_vars, filepath, strip_vars, fonts, calls, op, result,
                   pre>>

\* end of finally: a pending exception goes on; otherwise line 75 returns
\* new_filepath, to execute() (line 200) or to add_parry_timer_inset (line 86)
RfExit ==
    /\ pc = "rf_exit"
    /\ IF loc.exn # "none"
       THEN /\ Propagate(loc.exn)
            /\ loc' = loc
       ELSE /\ loc' = [loc EXCEPT !.ret = loc.new_filepath]
            /\ IF op = "render_frame"
               THEN /\ result' = Finished
                    /\ pc' = "idle"
               ELSE /\ result' = result
                    /\ pc' = "pi_image_add"
    /\ UNCHANGED <<scene_vars, render_vars, strip_vars, fonts, console, calls,
                   op, pre>>

\* ---------------------------------------------------------- add_text_strip
\* line 35: frame_end=frame_num+duration
TextStripEnd(frame_num, duration) == frame_num + duration

\* lines 31-38: bpy.ops.sequencer.effect_strip_add(type='TEXT', ...) adds the
\* strip, selected and active, or raises; the strip gets a shadow and is
\* returned to the caller, who goes on at `next`.
add_text_strip(duration, next) ==
    LET frame_num == frame_current
        fe == TextStripEnd(frame_num, duration)
        i == NewId(sequences)
        new == [Strip(i, "TEXT", frame_num, fe, "Text", <<>>)
                   EXCEPT !.use_shadow = TRUE]
    IN  /\ calls' = Append(calls,
                      Call("sequencer.effect_strip_add", frame_num, fe, <<>>, "TEXT"))
        /\ \E ok \in BOOLEAN :
             IF ok
             THEN /\ sequences' = Append(DeselectAll(sequences), new)
                  /\ active' = i
                  /\ loc' = [loc EXCEPT !.label = i]
                  /\ pc' = next
                  /\ result' = result
             ELSE /\ UNCHANGED <<sequences, active, loc>>
                  /\ Propagate("effect_strip_add")
        /\ UNCHANGED <<scene_vars, render_vars, fonts, console, op, pre>>

\* --------------------------------------------------------- get_calibri_font
FontLogLine == [kind |-> "loading_font", count |-> 0, text |-> ""]

\* lines 17-24: the font is opened unless it is loaded already
GetCalibriFont ==
    /\ pc = "get_font"
    /\ IF fonts
       THEN /\ pc' = "set_font"
            /\ UNCHANGED <<fonts, console, calls, result>>
       ELSE /\ console' = Append(console, FontLogLine)
            /\ calls' = Append(calls, Call("font.open", 0, 0, <<>>, ""))
            /\ \E ok \in BOOLEAN :
                 IF ok
                 THEN /\ fonts' = TRUE
                      /\ pc' = "set_font"
                      /\ result' = result
                 ELSE /\ fonts' = fonts
                      /\ Propagate("font.open")
    /\ UNCHANGED <<scene_vars, render_vars, strip_vars, op, loc, pre>>

\* lines 124-125 and 144-145: label.font = font; the function returns and
\* execute() reports {'FINISHED'}
SetLabelFont(s) == [s EXCEPT !.has_font = TRUE]
SetFont ==
    /\ pc = "set_font"
    /\ sequences' = Update(sequences, loc.label, SetLabelFont(ById(sequences, loc.label)))
    /\ result' = Finished
    /\ pc' = "idle"
    /\ UNCHANGED <<scene_vars, render_vars, active, fonts, console, calls, op,
                   loc, pre>>

\* ---------------------------------------------------- add_parry_timer_inset
AddParryTimerInset0Operator_execute ==
    Invoke("add_parry_timer_inset", "rf_begin", 0)

AddParryTimerInset1Operator_execute ==
    Invoke("add_parry_timer_inset", "rf_begin", 1)

\* line 112
OffsetY(n) == -(OffsetBase + OffsetStep * n)

\* lines 89-103: bpy.ops.sequencer.image_strip_add shows the file `basename`
\* of `directory` from frame_num to frame_num+120; img is the new strip
PiImageAdd ==
    /\ pc = "pi_image_add"
    /\ LET new_filepath == loc.ret
           directory == dirname(new_filepath)
           name == basename(new_filepath)
           frame_num == frame_current
           i == NewId(sequences)
           new == Strip(i, "IMAGE", frame_num, frame_num + InsetFrames, "",
                        join(directory, name))
       IN  /\ calls' = Append(calls,
                         Call("sequencer.image_strip_add", frame_num,
                              frame_num + InsetFrames, join(directory, name), ""))
           /\ \E ok \in BOOLEAN :
                IF ok
                THEN /\ sequences' = Append(DeselectAll(sequences), new)
                     /\ active' = i
                     /\ loc' = [loc EXCEPT !.img = i]
                     /\ pc' = "pi_image_props"
                     /\ result' = result
                ELSE /\ UNCHANGED <<sequences, active, loc>>
                     /\ Propagate("image_strip_add")
    /\ UNCHANGED <<scene_vars, render_vars, fonts, console, op, pre>>

\* lines 106-112: crop to the parry timer, move it down by slot
SetImageProps(s) ==
    [s EXCEPT !.crop = <<CropMinX, CropMaxX, CropMinY, CropMaxY>>,
              !.offset_y = OffsetY(loc.n)]
PiImageProps ==
    /\ pc = "pi_image_props"
    /\ sequences' = Update(sequences, loc.img, SetImageProps(ById(sequences, loc.img)))
    /\ pc' = "pi_text_add"
    /\ UNCHANGED <<scene_vars, render_vars, active, fonts, console, calls, op,
                   loc, result, pre>>

\* line 115
PiTextAdd ==
    /\ pc = "pi_text_add"
    /\ add_text_strip(InsetFrames, "pi_label_props")

\* lines 118-121; the label's location is in hundredths
SetInsetLabelProps(s) ==
    [s EXCEPT !.font_size = InsetFontSize, !.align_x = "RIGHT",
              !.location = <<90, 74 - 7 * loc.n>>]
PiLabelProps ==
    /\ pc = "pi_label_props"
    /\ sequences' = Update(sequences, loc.label, SetInsetLabelProps(ById(sequences, loc.label)))
    /\ pc' = "get_font"
    /\ UNCHANGED <<scene_vars, render_vars, active, fonts, console, calls, op,
                   loc, result, pre>>

\* ------------------------------------------------------- add_attempt_number
AddAttemptNumberOperator_execute ==
    Invoke("add_attempt_number", "an_text_add", 0)

\* line 132
RemainingFramesIsEnd == frame_end
RemainingFrames == frame_end - frame_current

\* line 133
AnTextAdd ==
    /\ pc = "an_text_add"
    /\ add_text_strip(RemainingFrames, "an_label_props")

\* lines 134-141
SetAttemptLabelProps(s) ==
    [s EXCEPT !.font_size = AttemptFontSize, !.align_x = "RIGHT",
              !.location = <<98, 12>>, !.text = "1"]
AnLabelProps ==
    /\ pc = "an_label_props"
    /\ sequences' = Update(sequences, loc.label, SetAttemptLabelProps(ById(sequences, loc.label)))
    /\ pc' = "get_font"
    /\ UNCHANGED <<scene_vars, render_vars, active, fonts, console, calls, op,
                   loc, result, pre>>

\* ------------------------------------------------------------ ripple_delete
RippleDeleteOperator_execute == Invoke("ripple_delete", "rd_check", 0)

\* context.selected_sequences: the selected strips, in list order
selected_sequences(seqs) == SelectSeq(seqs, LAMBDA s : s.select)

\* bpy.ops.sequencer.delete(): removes the selected strips
HostDelete(seqs) == SelectSeq(seqs, LAMBDA s : ~s.select)

\* bpy.ops.sequencer.select_side_of_frame(side='RIGHT'): the selection
\* becomes the strips that start at or after the current frame
HostSelectRightOf(seqs, frame) ==
    [k \in 1..Len(seqs) |->
        [seqs[k] EXCEPT !.select = (seqs[k].frame_final_start >= frame)]]

\* bpy.ops.transform.seq_slide(value=(dx, 0)): moves the selected strips
HostSeqSlide(seqs, dx) ==
    [k \in 1..Len(seqs) |->
        IF seqs[k].select
        THEN [seqs[k] EXCEPT !.frame_final_start = @ + dx]
        ELSE seqs[k]]

\* lines 154-155: the guard
NoSelectionUnguarded(seqs) == FALSE
NoSelection(seqs) == Len(selected_sequences(seqs)) = 0

\* lines 154-161: without a selection RuntimeError is raised; otherwise the
\* start and duration of the first selected strip are read
\* (selected_sequences[0] of an empty list would raise IndexError)
RdCheck ==
    /\ pc = "rd_check"
    /\ IF NoSelection(sequences)
       THEN /\ Propagate("RuntimeError")
            /\ loc' = loc
       ELSE IF selected_sequences(sequences) = <<>>
       THEN /\ Propagate("IndexError")
            /\ loc' = loc
       ELSE /\ LET first_sel == selected_sequences(sequences)[1]
               IN  loc' = [loc EXCEPT !.start = first_sel.frame_final_start,
                                      !.duration = first_sel.frame_final_duration]
            /\ pc' = "rd_delete"
            /\ result' = result
    /\ UNCHANGED <<scene_vars, render_vars, strip_vars, fonts, console, calls,
                   op, pre>>

\* line 164
RdDelete ==
    /\ pc = "rd_delete"
    /\ calls' = Append(calls, Call("sequencer.delete", 0, 0, <<>>, ""))
    /\ \E ok \in BOOLEAN :
         IF ok
         THEN /\ sequences' = HostDelete(sequences)
              /\ active' = IF active \in Ids(HostDelete(sequences)) THEN active ELSE 0
              /\ pc' = "rd_set_frame"
              /\ result' = result
         ELSE /\ UNCHANGED <<sequences, active>>
              /\ Propagate("sequencer.delete")
    /\ UNCHANGED <<scene_vars, render_vars, fonts, console, op, loc, pre>>

\* line 167
RdFrameNotSet ==
    /\ pc = "rd_set_frame"
    /\ pc' = "rd_select"
    /\ UNCHANGED <<scene_vars, render_vars, strip_vars, fonts, console, calls,
                   op, loc, result, pre>>
RdSetFrame ==
    /\ pc = "rd_set_frame"
    /\ frame_current' = loc.start
    /\ calls' = Append(calls, Call("scene.frame_current=", loc.start, 0, <<>>, ""))
    /\ pc' = "rd_select"
    /\ UNCHANGED <<frame_end, fps, render_vars, strip_vars, fonts, console, op,
                   loc, result, pre>>

\* lines 170-171
RdSelect ==
    /\ pc = "rd_select"
    /\ calls' = Append(calls,
                  Call("sequencer.select_side_of_frame", frame_current, 0, <<>>, "RIGHT"))
    /\ \E ok \in BOOLEAN :
         IF ok
         THEN /\ sequences' = HostSelectRightOf(sequences, frame_current)
              /\ pc' = "rd_slide"
              /\ result' = result
         ELSE /\ sequences' = sequences
              /\ Propagate("sequencer.select_side_of_frame")
    /\ UNCHANGED <<scene_vars, render_vars, active, fonts, console, op, loc, pre>>

\* line 175: value=(-duration, 0)
SlideValueRight(l) == l.duration
SlideValue(l) == -l.duration

\* lines 174-176; ripple_delete returns and execute() reports {'FINISHED'}
RdSlide ==
    /\ pc = "rd_slide"
    /\ calls' = Append(calls, Call("transform.seq_slide", SlideValue(loc), 0, <<>>, ""))
    /\ \E ok \in BOOLEAN :
         IF ok
         THEN /\ sequences' = HostSeqSlide(sequences, SlideValue(loc))
              /\ result' = Finished
              /\ pc' = "idle"
         ELSE /\ sequences' = sequences
              /\ Propagate("transform.seq_slide")
    /\ UNCHANGED <<scene_vars, render_vars, active, fonts, console, op, loc, pre>>

\* --------------------------------------------------------- print_text_strips
PrintTextStripsOperator_execute == Invoke("print_text_strips", "pt_print", 0)

\* sorted(strips, key=lambda strip: strip.frame_final_start): stable, so
\* strips of equal start keep their list order
RECURSIVE InsertByStart(_, _)
InsertByStart(x, sorted) ==
    IF sorted = <<>> THEN <<x>>
    ELSE IF sorted[Len(sorted)].frame_final_start <= x.frame_final_start
         THEN Append(sorted, x)
         ELSE Append(InsertByStart(x, SubSeq(sorted, 1, Len(sorted) - 1)),
                     sorted[Len(sorted)])

RECURSIVE SortPrefix(_, _)
SortPrefix(seqs, k) ==
    IF k = 0 THEN <<>> ELSE InsertByStart(seqs[k], SortPrefix(seqs, k - 1))

SortedByStart(seqs) == SortPrefix(seqs, Len(seqs))

\* line 185: count = len(strips)
HeaderCount(strips) == Len(strips)

HeaderLine(n) == [kind |-> "header", count |-> n, text |-> ""]
TextLine(s) == [kind |-> "text", count |-> 0, text |-> s.text]

\* lines 188-190: only the text strips are printed
IsPrinted(s) == s.type = "TEXT"

RECURSIVE TextLines(_)
TextLines(strips) ==
    IF strips = <<>> THEN <<>>
    ELSE (IF IsPrinted(Head(strips)) THEN <<TextLine(Head(strips))>> ELSE <<>>)
             \o TextLines(Tail(strips))

\* lines 183-190; the model has no locked strips, so the editable selected
\* strips are the selected ones
PtPrint ==
    /\ pc = "pt_print"
    /\ LET strips == SortedByStart(selected_sequences(sequences))
       IN  console' = console \o <<HeaderLine(HeaderCount(strips))>>
                              \o TextLines(strips)
    /\ result' = Finished
    /\ pc' = "idle"
    /\ UNCHANGED <<scene_vars, render_vars, strip_vars, fonts, calls, op, loc,
                   pre>>

\* ------------------------------------------------------------ initial states
PathChars == {"/", "d"}
Paths == UNION {[1..n -> PathChars] : n \in 0..MaxPathLen}
Formats == {"PNG", "FFMPEG"}
FrameRates == {24, 30}
DefaultPath == <<"/", "d", "/", "a">>
TextOf(i) == <<"a", "b", "c", "d", "e", "f">>[i]

\* an existing strip on the timeline
InitStrip(i, t, fs, d, sel) ==
    [Strip(i, t, fs, fs + d, IF t = "TEXT" THEN TextOf(i) ELSE "", <<>>)
        EXCEPT !.select = sel]

InitCommon ==
    /\ console = <<>>
    /\ calls = <<>>
    /\ pc = "idle"
    /\ op = "none"
    /\ loc = LocInit
    /\ result = NoResult
    /\ active = 0
    /\ pre = Snapshot

\* commands that render and add strips: any output path, format, frame
InitAdd ==
    /\ filepath \in Paths
    /\ file_format \in Formats
    /\ frame_current \in (0..MaxFrame) \cup {BigFrame}
    /\ frame_end \in 1..MaxFrame
    /\ fps \in FrameRates
    /\ fonts \in BOOLEAN
    /\ sequences \in {<<>>, <<InitStrip(1, "TEXT", 0, 1, TRUE)>>}
    /\ InitCommon

NextAdd ==
    \/ RenderFrameOperator_execute
    \/ AddParryTimerInset0Operator_execute
    \/ AddParryTimerInset1Operator_execute
    \/ AddAttemptNumberOperator_execute
    \/ RfBegin \/ RfSetFilepath \/ RfSetFormat \/ RfRender
    \/ RfRestoreFilepath \/ RfRestoreFormat \/ RfExit
    \/ PiImageAdd \/ PiImageProps \/ PiTextAdd \/ PiLabelProps
    \/ AnTextAdd \/ AnLabelProps
    \/ GetCalibriFont \/ SetFont

SpecAdd == InitAdd /\ [][NextAdd]_vars

\* timelines of up to MaxStrips strips
RippleStrips(n) ==
    {[i \in 1..n |-> InitStrip(i, "TEXT", f[i][1], f[i][2], f[i][3])] :
        f \in [1..n -> (0..MaxFrame) \X {1, MaxDur} \X BOOLEAN]}

InitRipple ==
    /\ filepath = DefaultPath
    /\ file_format = "FFMPEG"
    /\ frame_current = MaxFrame
    /\ frame_end = BigFrame
    /\ fps = 30
    /\ fonts = FALSE
    /\ \E n \in 0..MaxStrips : sequences \in RippleStrips(n)
    /\ InitCommon

NextRipple ==
    \/ RippleDeleteOperator_execute
    \/ RdCheck \/ RdDelete \/ RdSetFrame \/ RdSelect \/ RdSlide

SpecRipple == InitRipple /\ [][NextRipple]_vars

PrintStrips(n) ==
    {[i \in 1..n |-> InitStrip(i, f[i][1], f[i][2], 1, f[i][3])] :
        f \in [1..n -> {"TEXT", "IMAGE"} \X (0..MaxFrame) \X BOOLEAN]}

InitPrint ==
    /\ filepath = DefaultPath
    /\ file_format = "FFMPEG"
    /\ frame_current = MaxFrame
    /\ frame_end = BigFrame
    /\ fps = 30
    /\ fonts = FALSE
    /\ \E n \in 0..MaxStrips : sequences \in PrintStrips(n)
    /\ InitCommon

NextPrint ==
    \/ PrintTextStripsOperator_execute
    \/ PtPrint

SpecPrint == InitPrint /\ [][NextPrint]_vars

\* ------------------------------------------------------------------ claims
RfLabels == {"rf_begin", "rf_set_filepath", "rf_set_format", "rf_render",
             "rf_restore_filepath", "rf_restore_format", "rf_exit"}

\* render_frame was called by the running command and has finished, by
\* returning or by raising
RfFinished == op \in {"render_frame", "add_parry_timer_inset"} /\ pc \notin RfLabels

\* the command `name` has ended, with {'FINISHED'} or with an exception
Ended(name) == op = name /\ pc = "idle" /\ result.status # "none"

RenderCalls == SelectSeq(calls, LAMBDA c : c.cmd = "render.render")
CallsOf(cmd) == SelectSeq(calls, LAMBDA c : c.cmd = cmd)

SettingsAsFound == filepath = pre.filepath /\ file_format = pre.file_format

\* C1 as stated: once render_frame has finished, however the render ended,
\* the output path and the file format are those from before the call.
C1_SettingsAlwaysRestored == RfFinished => SettingsAsFound

\* C1, amended: once render_frame has finished, however the try block ended,
\* the output path and the file format are those from before the call unless
\* a write of the restoration failed; then the failure was swallowed and each
\* setting holds its old value or the one render_frame gave it.
C1_SettingsRestoredUnlessRestoreFails ==
    RfFinished =>
        /\ ~loc.restore_failed => SettingsAsFound
        /\ filepath \in {pre.filepath, loc.new_filepath}
        /\ file_format \in {pre.file_format, "PNG"}

\* the render raised, the restoration went through, the settings are back
C1_Witness ==
    /\ RfFinished
    /\ loc.exn = "render"
    /\ ~loc.restore_failed
    /\ pre.file_format # "PNG"
    /\ pre.filepath # loc.new_filepath
    /\ SettingsAsFound

\* C2: a failure of the restoration is never what the caller of render_frame
\* sees: an exception of the try block propagates as it is, and without one
\* render_frame returns the new file name, whether or not restoring failed.
C2_RestoreFailureNeverSeen ==
    RfFinished =>
        /\ loc.exn \in {"none", "set_filepath", "set_format", "render"}
        /\ result.exn # "restore"
        /\ loc.exn # "none" => result = Raised(loc.exn)
        /\ loc.exn = "none" =>
              /\ loc.ret = loc.new_filepath
              /\ op = "render_frame" => result = Finished
              /\ op = "add_parry_timer_inset" =>
                    result.exn \notin {"set_filepath", "set_format", "render"}

\* the render raised and the restoration failed too: the render's error is seen
C2_Witness ==
    /\ Ended("render_frame")
    /\ loc.exn = "render"
    /\ loc.restore_failed
    /\ result = Raised("render")
    /\ console = <<RestoreLogLine>>

\* C5 as stated: the returned path is <dir>/frame-<N>.png, and the render
\* runs while the output path is that path and the format is PNG.
C5_PathIsDirSlashName ==
    (RfFinished /\ loc.exn = "none") =>
        /\ loc.ret = dirname(pre.filepath) \o <<"/">> \o FrameFileName(pre.frame_current)
        /\ RenderCalls = <<Call("render.render", 0, 0, loc.ret, "PNG")>>

\* C5, amended: the returned path names the file frame-<N>.png of <dir>: it
\* is <dir>/frame-<N>.png, except that no separator is put after a <dir> that
\* is empty or ends with one; the render is invoked once, while the output
\* path is that path and the format is PNG.
C5_PathIsJoinedName ==
    LET dir == dirname(pre.filepath)
        name == FrameFileName(pre.frame_current)
    IN  /\ \A k \in 1..Len(RenderCalls) :
              RenderCalls[k] = Call("render.render", 0, 0, loc.new_filepath, "PNG")
        /\ (RfFinished /\ loc.exn = "none") =>
              /\ loc.ret = IF dir = <<>> \/ dir[Len(dir)] = "/"
                           THEN dir \o name
                           ELSE dir \o <<"/">> \o name
              /\ dirname(loc.ret) = dir
              /\ basename(loc.ret) = name
              /\ RenderCalls = <<Call("render.render", 0, 0, loc.ret, "PNG")>>

\* an output path without a directory part: the file name alone is returned
C5_Witness ==
    /\ Ended("render_frame")
    /\ result = Finished
    /\ pre.filepath = <<"d">>
    /\ pre.frame_current = BigFrame
    /\ loc.ret = FrameFileName(BigFrame)
    /\ Len(RenderCalls) = 1

\* the strip add_attempt_number added, and the command that asked for it
AttemptAdded == op = "add_attempt_number" /\ loc.label # 0
AttemptCall == CallsOf("sequencer.effect_strip_add")[1]
AttemptStrip == ById(sequences, loc.label)
StripEnd(s) == s.frame_final_start + s.frame_final_duration

\* C8 as stated: one text strip "1" from the current frame to the scene's end
\* frame, wherever the current frame is, its end never before its start.
C8_StripToEndAlways ==
    (Ended("add_attempt_number") /\ result = Finished) =>
        /\ Len(sequences) = Len(pre.sequences) + 1
        /\ AttemptStrip.type = "TEXT" /\ AttemptStrip.text = "1"
        /\ AttemptCall.x = pre.frame_current
        /\ AttemptCall.y = pre.frame_end
        /\ AttemptCall.y >= AttemptCall.x

\* C8, amended: add_attempt_number asks for one text strip from the current
\* frame to the scene's end frame and sets its text to "1"; the strip starts
\* at the current frame and ends at the end frame when the current frame is
\* before the end frame, and the end asked for is before the start exactly
\* when the current frame is past the end frame.
C8_StripToEndWhenBefore ==
    /\ AttemptAdded =>
          /\ Len(sequences) = Len(pre.sequences) + 1
          /\ AttemptCall.x = pre.frame_current
          /\ AttemptCall.y = pre.frame_end
          /\ (AttemptCall.y < AttemptCall.x) <=> (pre.frame_current > pre.frame_end)
          /\ AttemptStrip.type = "TEXT"
          /\ AttemptStrip.frame_final_start = pre.frame_current
          /\ pre.frame_current < pre.frame_end =>
                StripEnd(AttemptStrip) = pre.frame_end
    /\ (Ended("add_attempt_number") /\ result = Finished) =>
          AttemptAdded /\ AttemptStrip.text = "1"

C8_Witness ==
    /\ Ended("add_attempt_number")
    /\ result = Finished
    /\ pre.frame_current = 1
    /\ pre.frame_end = 2
    /\ AttemptStrip.frame_final_start = 1
    /\ StripEnd(AttemptStrip) = 2
    /\ AttemptStrip.text = "1"

\* C9: the inset is an image strip of the file render_frame wrote and a text
\* label, both from the current frame, of the same length, 4 seconds of scene
\* time; the image is moved down by 150 + 50*n.
C9_InsetLastsFourSeconds ==
    (Ended("add_parry_timer_inset") /\ result = Finished) =>
        LET img == ById(sequences, loc.img)
            label == ById(sequences, loc.label)
        IN  /\ Len(sequences) = Len(pre.sequences) + 2
            /\ img.type = "IMAGE" /\ label.type = "TEXT"
            /\ img.file = RenderCalls[1].path
            /\ img.frame_final_start = pre.frame_current
            /\ label.frame_final_start = pre.frame_current
            /\ img.frame_final_duration = label.frame_final_duration
            /\ img.frame_final_duration = InsetSeconds * fps
            /\ img.offset_y = -(OffsetBase + OffsetStep * loc.n)

\* C10 as stated: when the render fails inside add_parry_timer_inset nothing
\* is added, no font is loaded, the error propagates and the render settings
\* are back.
C10_FailedRenderLeavesNoTrace ==
    (op = "add_parry_timer_inset" /\ RfFinished /\ loc.exn = "render") =>
        /\ Ended("add_parry_timer_inset")
        /\ result = Raised("render")
        /\ sequences = pre.sequences /\ active = pre.active
        /\ fonts = pre.fonts /\ CallsOf("font.open") = <<>>
        /\ SettingsAsFound

\* C10, amended: when the render fails inside add_parry_timer_inset nothing
\* is added, no font is loaded and the error propagates; the render settings
\* are back unless a write of the restoration failed.
C10_FailedRenderAddsNothing ==
    (op = "add_parry_timer_inset" /\ RfFinished /\ loc.exn = "render") =>
        /\ Ended("add_parry_timer_inset")
        /\ result = Raised("render")
        /\ sequences = pre.sequences /\ active = pre.active
        /\ fonts = pre.fonts /\ CallsOf("font.open") = <<>>
        /\ Len(calls) = 1
        /\ ~loc.restore_failed => SettingsAsFound

C10_Witness ==
    /\ Ended("add_parry_timer_inset")
    /\ loc.n = 1
    /\ result = Raised("render")
    /\ ~loc.restore_failed
    /\ ~pre.fonts
    /\ pre.file_format = "FFMPEG"
    /\ Len(pre.sequences) = 1
    /\ sequences = pre.sequences
    /\ SettingsAsFound

\* C9 with the length the code gives the inset, 120 frames, in place of 4
\* seconds: the rest of the statement holds.
C9_InsetLasts120Frames ==
    (Ended("add_parry_timer_inset") /\ result = Finished) =>
        LET img == ById(sequences, loc.img)
            label == ById(sequences, loc.label)
        IN  /\ Len(sequences) = Len(pre.sequences) + 2
            /\ img.type = "IMAGE" /\ label.type = "TEXT"
            /\ img.file = RenderCalls[1].path
            /\ img.frame_final_start = pre.frame_current
            /\ label.frame_final_start = pre.frame_current
            /\ img.frame_final_duration = label.frame_final_duration
            /\ img.frame_final_duration = InsetFrames
            /\ img.offset_y = -(OffsetBase + OffsetStep * loc.n)

\* ----------------------------------------------------- claims: ripple_delete
IsPrefix(a, b) == Len(a) <= Len(b) /\ SubSeq(b, 1, Len(a)) = a

SetMin(S) == CHOOSE x \in S : \A y \in S : x <= y
SetMax(S) == CHOOSE x \in S : \A y \in S : y <= x

\* the strips selected when the command was invoked
PreSelected == selected_sequences(pre.sequences)
PreSelectedIds == Ids(PreSelected)
PreStrip(i) == ById(pre.sequences, i)

\* all selected strips have the same start and duration
SameExtent ==
    \A a, b \in 1..Len(PreSelected) :
        /\ PreSelected[a].frame_final_start = PreSelected[b].frame_final_start
        /\ PreSelected[a].frame_final_duration = PreSelected[b].frame_final_duration

\* the frames the deleted strips occupied: [GapStart, GapEnd)
GapStart == SetMin({PreSelected[k].frame_final_start : k \in 1..Len(PreSelected)})
GapEnd == SetMax({StripEnd(PreSelected[k]) : k \in 1..Len(PreSelected)})

\* exactly the selected strips are gone; the strips after the gap are moved
\* left by the gap's length and the strips before it are where they were
GapClosed ==
    /\ Ids(sequences) = Ids(pre.sequences) \ PreSelectedIds
    /\ \A k \in 1..Len(sequences) :
          LET s == sequences[k]
              old == PreStrip(s.id)
          IN  /\ s.frame_final_duration = old.frame_final_duration
              /\ old.frame_final_start >= GapEnd =>
                    s.frame_final_start = old.frame_final_start - (GapEnd - GapStart)
              /\ StripEnd(old) <= GapStart =>
                    s.frame_final_start = old.frame_final_start

\* C3: without a selection ripple_delete raises RuntimeError before any host
\* command: no strip is deleted or moved, selection and current frame are as
\* they were, and the command does not report FINISHED.
C3_EmptySelectionAborts ==
    (op = "ripple_delete" /\ pc # "rd_check" /\ PreSelected = <<>>) =>
        /\ pc = "idle"
        /\ result = Raised("RuntimeError")
        /\ calls = <<>>
        /\ sequences = pre.sequences
        /\ active = pre.active
        /\ frame_current = pre.frame_current

\* strips on the timeline, none selected
C3_Witness ==
    /\ Ended("ripple_delete")
    /\ Len(pre.sequences) = MaxStrips
    /\ PreSelected = <<>>
    /\ result = Raised("RuntimeError")
    /\ sequences = pre.sequences

\* C4 as stated: for every non-empty selection, of one or several strips,
\* exactly the selected strips are removed and the gap they occupied is closed.
C4_GapClosedForEverySelection ==
    (Ended("ripple_delete") /\ result = Finished) => GapClosed

\* C4, amended: for every non-empty selection whose strips all have the same
\* start and duration (the assumption of line 159), exactly the selected
\* strips are removed, every strip after them is moved left by that duration
\* and every strip before them keeps its position.
C4_GapClosedForSameExtent ==
    (Ended("ripple_delete") /\ result = Finished /\ SameExtent) => GapClosed

\* one strip before the deleted one stays, one after it has moved left
C4_Witness ==
    /\ Ended("ripple_delete")
    /\ result = Finished
    /\ SameExtent
    /\ Len(sequences) = 2
    /\ \E a, b \in 1..2 :
          /\ StripEnd(PreStrip(sequences[a].id)) <= GapStart
          /\ sequences[a].frame_final_start = PreStrip(sequences[a].id).frame_final_start
          /\ PreStrip(sequences[b].id).frame_final_start >= GapEnd
          /\ sequences[b].frame_final_start
                = PreStrip(sequences[b].id).frame_final_start - (GapEnd - GapStart)

\* C6: with a selection, ripple_delete issues its host commands in one order:
\* start and duration of the first selected strip are read before the delete,
\* then the delete, the move of the current frame to that start, the select
\* to the right of the (moved) current frame, the slide by minus the duration;
\* on return the current frame is that start.
RippleCommands ==
    LET first == PreSelected[1]
    IN  <<Call("sequencer.delete", 0, 0, <<>>, ""),
          Call("scene.frame_current=", first.frame_final_start, 0, <<>>, ""),
          Call("sequencer.select_side_of_frame", first.frame_final_start, 0, <<>>, "RIGHT"),
          Call("transform.seq_slide", -first.frame_final_duration, 0, <<>>, "")>>

C6_CommandOrder ==
    (op = "ripple_delete" /\ PreSelected # <<>>) =>
        /\ IsPrefix(calls, RippleCommands)
        /\ pc \in {"rd_delete", "rd_set_frame", "rd_select", "rd_slide"} =>
              /\ loc.start = PreSelected[1].frame_final_start
              /\ loc.duration = PreSelected[1].frame_final_duration
        /\ pc = "rd_delete" => calls = <<>> /\ sequences = pre.sequences
        /\ pc = "rd_select" => frame_current = loc.start
        /\ (pc = "idle" /\ result = Finished) =>
              /\ calls = RippleCommands
              /\ frame_current = PreSelected[1].frame_final_start

\* the current frame was elsewhere and the commands all ran
C6_Witness ==
    /\ Ended("ripple_delete")
    /\ result = Finished
    /\ calls = RippleCommands
    /\ pre.frame_current # frame_current
    /\ frame_current = PreSelected[1].frame_final_start
    /\ Len(sequences) > 0

\* ------------------------------------------------- claims: print_text_strips
RECURSIVE CountText(_)
CountText(lines) ==
    IF lines = <<>> THEN 0
    ELSE (IF Head(lines).kind = "text" THEN 1 ELSE 0) + CountText(Tail(lines))

\* the texts of the selected text strips (every text strip has its own text)
SelectedTexts(seqs) ==
    {s.text : s \in {seqs[k] : k \in {j \in 1..Len(seqs) :
                                        seqs[j].select /\ seqs[j].type = "TEXT"}}}

\* the start frame of the text strip that wrote a line
StartOfText(seqs, t) ==
    seqs[CHOOSE k \in 1..Len(seqs) : seqs[k].type = "TEXT" /\ seqs[k].text = t]
        .frame_final_start

\* C7: print_text_strips prints the header with N, then the text of every
\* selected text strip by non-decreasing start and nothing of other strips;
\* N is the number of texts printed; selection, timeline and current frame
\* are as before.
C7_HeaderCountsPrintedTexts ==
    Ended("print_text_strips") =>
        LET body == Tail(console)
        IN  /\ result = Finished
            /\ Head(console).kind = "header"
            /\ Head(console).count = Len(body)
            /\ \A k \in 1..Len(body) : body[k].kind = "text"
            /\ {body[k].text : k \in 1..Len(body)} = SelectedTexts(sequences)
            /\ Len(body) = Cardinality(SelectedTexts(sequences))
            /\ \A j, k \in 1..Len(body) :
                  j < k => StartOfText(sequences, body[j].text)
                              <= StartOfText(sequences, body[k].text)
            /\ sequences = pre.sequences
            /\ active = pre.active
            /\ frame_current = pre.frame_current

\* C7 with the number the code prints, that of all selected strips: the rest
\* of the statement holds.
C7_HeaderCountsSelectedStrips ==
    Ended("print_text_strips") =>
        LET body == Tail(console)
        IN  /\ result = Finished
            /\ Head(console).kind = "header"
            /\ Head(console).count = Len(selected_sequences(sequences))
            /\ \A k \in 1..Len(body) : body[k].kind = "text"
            /\ {body[k].text : k \in 1..Len(body)} = SelectedTexts(sequences)
            /\ Len(body) = Cardinality(SelectedTexts(sequences))
            /\ \A j, k \in 1..Len(body) :
                  j < k => StartOfText(sequences, body[j].text)
                              <= StartOfText(sequences, body[k].text)
            /\ sequences = pre.sequences
            /\ active = pre.active
            /\ frame_current = pre.frame_current

====
